---- MODULE Spec2Model ----
(***************************************************************************)
(* Verification model of the rogersphotos watermark compositor             *)
(* (src/watermark.py) and of the upload/admin handlers that call it        *)
(* (src/app.py).                                                           *)
(*                                                                         *)
(* Five specifications share one variable list; each leaves the variables  *)
(* of the other parts untouched:                                           *)
(*   Spec          font resolution and find_max_font_size as a function    *)
(*   SpecScan      the while loop of find_max_font_size, one iteration a   *)
(*                 step                                                    *)
(*   SpecWatermark apply_watermark, stage by stage, with its output file   *)
(*   SpecStartup   the import-time font decode run by several processes    *)
(*   SpecUpload    the /upload and /admin request handlers                 *)
(***************************************************************************)
EXTENDS Integers, Sequences, FiniteSets, TLC

VARIABLES
    DECODED_FONT_PATH,  \* watermark.py global: "none" (None) or "snell" (the temp path)
    disk,               \* font files on disk: [snell |-> content, fallback |-> content]
    text,               \* argument of find_max_font_size
    image_width,        \* argument of find_max_font_size
    font,               \* what the last call returned (or Raised)
    prev_width,         \* the width of the call before it (same text), -1 if none
    prev_font,          \* and what that call returned
    size,               \* local of find_max_font_size (SpecScan)
    scan_pc,            \* position inside find_max_font_size (SpecScan)
    measured,           \* number of textbbox measurements made by the loop (SpecScan)
    wm_pc,              \* position inside apply_watermark (SpecWatermark)
    source,             \* the file at input_path: an image [width, height] or Corrupt
    image,              \* local of apply_watermark: the decoded image, or NoImage
    placed,             \* locals x, y and the font and bbox they were computed from
    out_file,           \* the file at output_path
    out_before,         \* the file at output_path when apply_watermark was called
    font_b64,           \* WATERMARK_FONT_B64, the same in every process (SpecStartup)
    proc_pc,            \* per process: position in the import of watermark.py
    proc_path,          \* per process: its own _DECODED_FONT_PATH
    proc_font,          \* per process: what its load_snell_font call returned
    up_pc,              \* position inside the POST /upload handler (SpecUpload)
    form,               \* the request being handled
    original_file,      \* the file at original_path of this request
    watermarked_file,   \* the file at watermarked_path of this request
    response,           \* status code sent for this request, 0 while none is
    photos              \* the Firestore collection 'photos', in insertion order

fontVars == <<DECODED_FONT_PATH, disk>>
searchVars == <<text, image_width, font, prev_width, prev_font>>
scanVars == <<size, scan_pc, measured>>
wmVars == <<wm_pc, source, image, placed, out_file, out_before>>
startVars == <<font_b64, proc_pc, proc_path, proc_font>>
upVars == <<up_pc, form, original_file, watermarked_file, response, photos>>
offSearch == <<wmVars, startVars, upVars>>
offWatermark == <<text, image_width, prev_width, prev_font, scanVars, startVars, upVars>>
offStartup == <<DECODED_FONT_PATH, searchVars, scanVars, wmVars, upVars>>
offUpload == <<fontVars, searchVars, scanVars, wmVars, startVars>>
vars == <<fontVars, searchVars, scanVars, wmVars, startVars, upVars>>

----------------------------------------------------------------------------
(* Bounds of the model *)

MaxImageWidth == 44

MaxImageHeight == 2

NumProcs == 2

MaxPhotos == 2

----------------------------------------------------------------------------
(* Configuration constants of watermark.py *)

WATERMARK_TEXT == "Rogers Photography"

FONT_INDEX == 1

PADDING == 20

NoFont == [kind |-> "none"]

Raised == [kind |-> "raised"]

Font(tier, sz) == [kind |-> "font", tier |-> tier, size |-> sz]

Corrupt == [kind |-> "corrupt"]

NoImage == [kind |-> "none"]

Picture(w, h) == [kind |-> "image", width |-> w, height |-> h]

NotPlaced == [kind |-> "none"]

----------------------------------------------------------------------------
(* The imaging library, as far as the program observes it *)

\* Contents a font file can have: a collection holding face FONT_INDEX ("ttc"),
\* a single-face font ("ttf"), bytes that are no font ("garbage"), a file that
\* was created but not written ("empty") or written in part ("partial").
Loadable(content, index) ==
    \/ content = "ttc" /\ index \in {0, FONT_INDEX}
    \/ content = "ttf" /\ index = 0

exists(path) == disk[path] # "absent"

\* ImageFont.truetype(path, size, index): a font, or OSError.
truetype(path, sz, index, tier) ==
    IF Loadable(disk[path], index) THEN Font(tier, sz) ELSE Raised

\* ImageFont.load_default(): a fixed bitmap font, whatever size was asked for.
load_default(sz) == Font("default", sz)

\* draw.textbbox((0, 0), text, font): (left, top, right, bottom) of the text
\* drawn at the origin.  Scalable faces have a left bearing and a gap above
\* the glyphs that grow with the size; the bitmap default has neither and does
\* not scale.  The empty text measures (0, 0, 0, 0).
Advance(f, n) ==
    CASE f.tier = "primary"  -> n * f.size
      [] f.tier = "primary0" -> (3 * n * f.size) \div 4
      [] f.tier = "fallback" -> (n * f.size) \div 2
      [] f.tier = "default"  -> 6 * n

textbbox(t, f) ==
    LET n == Len(t)
        left == IF f.tier = "default" THEN 0 ELSE f.size \div 8
        top == IF f.tier = "default" THEN 0 ELSE f.size \div 4
        height == IF f.tier = "default" THEN 11 ELSE f.size
    IN  IF n = 0 THEN <<0, 0, 0, 0>>
        ELSE <<left, top, left + Advance(f, n), top + height>>

----------------------------------------------------------------------------
(* watermark.py: font resolution *)

\* lines 47-51: the bundled fallback file, else the built-in default.
\* The truetype call on line 49 is not guarded: its OSError propagates.
load_fallback(sz) ==
    IF exists("fallback") THEN truetype("fallback", sz, 0, "fallback")
    ELSE load_default(sz)

\* lines 37-51, for a process whose _DECODED_FONT_PATH is `path`.
snell_font(path, sz) ==
    IF path # "none" /\ exists(path)
    THEN IF truetype(path, sz, FONT_INDEX, "primary") # Raised
         THEN truetype(path, sz, FONT_INDEX, "primary")
         ELSE IF truetype(path, sz, 0, "primary0") # Raised
              THEN truetype(path, sz, 0, "primary0")
              ELSE load_fallback(sz)
    ELSE load_fallback(sz)

load_snell_font(sz) == snell_font(DECODED_FONT_PATH, sz)

----------------------------------------------------------------------------
(* watermark.py: font-size search *)

\* Fits without the 20 pixels kept free.
FitsNoPadding(t, f, w) ==
    LET bbox == textbbox(t, f) IN (bbox[3] - bbox[1]) <= w

\* Fits with the operands of the subtraction swapped.
FitsSwapped(t, f, w) ==
    LET bbox == textbbox(t, f) IN (bbox[3] - bbox[1]) <= 20 - w

\* line 60: the loop's test.
Fits(t, f, w) ==
    LET bbox == textbbox(t, f) IN (bbox[3] - bbox[1]) <= w - 20

\* lines 55-62: the candidate sizes at which the loop leaves, because the font
\* fails to load (the OSError propagates) or because the text fits.
stop_sizes(t, w) ==
    {sz \in 2 .. 200 :
        \/ load_snell_font(sz) = Raised
        \/ Fits(t, load_snell_font(sz), w)}

\* lines 53-63 in closed form: the loop counts down from 200 while size > 1 and
\* leaves at the first (largest) stopping candidate; with none it loads size 10.
\* ScanAgrees below checks this form against the loop of SpecScan.
find_max_font_size(t, w) ==
    LET stop == stop_sizes(t, w)
    IN  IF stop = {} THEN load_snell_font(10)
        ELSE load_snell_font(CHOOSE sz \in stop : \A o \in stop : o <= sz)

----------------------------------------------------------------------------
(* Inputs *)

Texts == {"", "R", "RP", WATERMARK_TEXT}

Widths == 0 .. MaxImageWidth

Procs == 1 .. NumProcs

\* Font files as a deployment can have them once watermark.py is imported.
FontEnvs ==
    {e \in [path : {"none", "snell"},
            snell : {"absent", "ttc", "ttf", "garbage"},
            fallback : {"absent", "ttf", "garbage"}] :
        (e.path = "none") <=> (e.snell = "absent")}

InitFonts ==
    \E e \in FontEnvs :
        /\ DECODED_FONT_PATH = e.path
        /\ disk = [snell |-> e.snell, fallback |-> e.fallback]

IdleSearch ==
    /\ text = ""
    /\ image_width = 0
    /\ font = NoFont
    /\ prev_width = -1
    /\ prev_font = NoFont

IdleScan ==
    /\ size = 0
    /\ scan_pc = "idle"
    /\ measured = 0

IdleStartup ==
    /\ font_b64 = ""
    /\ proc_pc = [p \in Procs |-> "imported"]
    /\ proc_path = [p \in Procs |-> "none"]
    /\ proc_font = [p \in Procs |-> NoFont]

NoForm == [has_file |-> FALSE, category |-> "", ext |-> "", named |-> FALSE]

IdleUpload ==
    /\ up_pc = "idle"
    /\ form = NoForm
    /\ original_file = "absent"
    /\ watermarked_file = "absent"
    /\ response = 0
    /\ photos = <<>>

IdleWatermark ==
    /\ wm_pc = "idle"
    /\ source = Corrupt
    /\ image = NoImage
    /\ placed = NotPlaced
    /\ out_file = "absent"
    /\ out_before = "absent"

----------------------------------------------------------------------------
(* Spec: find_max_font_size applied to two images with the same text *)

Init ==
    /\ InitFonts
    /\ \E t \in Texts : text = t
    /\ image_width = 0
    /\ font = NoFont
    /\ prev_width = -1
    /\ prev_font = NoFont
    /\ IdleScan
    /\ IdleWatermark
    /\ IdleStartup
    /\ IdleUpload

\* font = find_max_font_size(text, image.width) for the first image (line 69)
SearchFirst(w) ==
    /\ font = NoFont
    /\ image_width' = w
    /\ font' = find_max_font_size(text, w)
    /\ UNCHANGED <<fontVars, text, prev_width, prev_font, scanVars, offSearch>>

\* the same call for the next image; the first result is kept for comparison
SearchNext(w) ==
    /\ font # NoFont
    /\ prev_font = NoFont
    /\ prev_width' = image_width
    /\ prev_font' = font
    /\ image_width' = w
    /\ font' = find_max_font_size(text, w)
    /\ UNCHANGED <<fontVars, text, scanVars, offSearch>>

Next ==
    \/ \E w \in Widths : SearchFirst(w)
    \/ \E w \in Widths : SearchNext(w)

Spec == Init /\ [][Next]_vars

----------------------------------------------------------------------------
(* SpecScan: the loop of find_max_font_size, one iteration a step *)

InitScan ==
    /\ InitFonts
    /\ \E t \in Texts : text = t
    /\ image_width = 0
    /\ font = NoFont
    /\ prev_width = -1
    /\ prev_font = NoFont
    /\ IdleScan
    /\ IdleWatermark
    /\ IdleStartup
    /\ IdleUpload

\* line 54: size = 200
Call(w) ==
    /\ scan_pc = "idle"
    /\ image_width' = w
    /\ size' = 200
    /\ measured' = 0
    /\ scan_pc' = "loop"
    /\ UNCHANGED <<fontVars, text, font, prev_width, prev_font, offSearch>>

\* line 56 raises: load_snell_font's OSError leaves the function
LoopRaise ==
    /\ scan_pc = "loop"
    /\ size > 1
    /\ load_snell_font(size) = Raised
    /\ font' = Raised
    /\ scan_pc' = "raised"
    /\ UNCHANGED <<fontVars, text, image_width, prev_width, prev_font, size, measured, offSearch>>

\* lines 56-61: the candidate fits and is returned
LoopReturn ==
    /\ scan_pc = "loop"
    /\ size > 1
    /\ load_snell_font(size) # Raised
    /\ Fits(text, load_snell_font(size), image_width)
    /\ font' = load_snell_font(size)
    /\ measured' = measured + 1
    /\ scan_pc' = "returned"
    /\ UNCHANGED <<fontVars, text, image_width, prev_width, prev_font, size, offSearch>>

\* LoopDecrement without the decrement of line 62.
LoopDecrementStuck ==
    /\ scan_pc = "loop"
    /\ size > 1
    /\ load_snell_font(size) # Raised
    /\ ~Fits(text, load_snell_font(size), image_width)
    /\ size' = size
    /\ measured' = measured + 1
    /\ UNCHANGED <<fontVars, text, image_width, font, prev_width, prev_font, scan_pc, offSearch>>

\* lines 56-62: the candidate does not fit; size -= 1
LoopDecrement ==
    /\ scan_pc = "loop"
    /\ size > 1
    /\ load_snell_font(size) # Raised
    /\ ~Fits(text, load_snell_font(size), image_width)
    /\ size' = size - 1
    /\ measured' = measured + 1
    /\ UNCHANGED <<fontVars, text, image_width, font, prev_width, prev_font, scan_pc, offSearch>>

\* line 63: the loop condition size > 1 is false; return load_snell_font(10)
Fallback ==
    /\ scan_pc = "loop"
    /\ ~(size > 1)
    /\ font' = load_snell_font(10)
    /\ scan_pc' = (IF load_snell_font(10) = Raised THEN "raised" ELSE "fell_back")
    /\ UNCHANGED <<fontVars, text, image_width, prev_width, prev_font, size, measured, offSearch>>

NextScan ==
    \/ \E w \in Widths : Call(w)
    \/ LoopRaise
    \/ LoopReturn
    \/ LoopDecrement
    \/ Fallback

SpecScan == InitScan /\ [][NextScan]_vars

ScanOver == scan_pc \in {"returned", "fell_back", "raised"}

\* The closed form used by Spec gives what the loop gives, and the font the
\* loop returns fits exactly when it was returned from inside the loop.
ScanAgrees ==
    ScanOver =>
        /\ font = find_max_font_size(text, image_width)
        /\ font # Raised =>
              (scan_pc = "returned" <=> Fits(text, font, image_width))

----------------------------------------------------------------------------
(* watermark.py: placement (lines 71-79 and 97-106) *)

\* lines 72-79: x and y from the box measured at the origin.
Placement(img, f) ==
    LET bbox == textbbox(WATERMARK_TEXT, f)
        text_w == bbox[3] - bbox[1]
        text_h == bbox[4] - bbox[2]
    IN  [kind |-> "placed",
         font |-> f,
         x |-> img.width - text_w - PADDING,
         y |-> img.height - text_h - PADDING]

\* lines 99-106: the box of the glyphs of text_draw.text((x, y), ...), which is
\* the box measured at the origin moved by (x, y).  (The stroke of width 1
\* adds one more pixel of ink on every side of it.)
DrawnBox(p) ==
    LET bbox == textbbox(WATERMARK_TEXT, p.font)
    IN  <<p.x + bbox[1], p.y + bbox[2], p.x + bbox[3], p.y + bbox[4]>>

----------------------------------------------------------------------------
(* SpecWatermark: apply_watermark(input_path, output_path), stage by stage *)

Sources ==
    {Corrupt} \cup {Picture(w, h) : w \in 1 .. MaxImageWidth, h \in 1 .. MaxImageHeight}

InitWatermark ==
    /\ InitFonts
    /\ IdleSearch
    /\ IdleScan
    /\ IdleStartup
    /\ IdleUpload
    /\ wm_pc = "open"
    /\ \E src \in Sources : source = src
    /\ image = NoImage
    /\ placed = NotPlaced
    /\ \E o \in {"absent", "old"} : out_file = o /\ out_before = o

\* line 66: Image.open(input_path).convert("RGBA") raises on an unreadable source
OpenFails ==
    /\ wm_pc = "open"
    /\ source = Corrupt
    /\ wm_pc' = "failed"
    /\ UNCHANGED <<fontVars, font, source, image, placed, out_file, out_before, offWatermark>>

\* lines 66-67
Open ==
    /\ wm_pc = "open"
    /\ source # Corrupt
    /\ image' = source
    /\ wm_pc' = "font"
    /\ UNCHANGED <<fontVars, font, source, placed, out_file, out_before, offWatermark>>

\* line 69; an OSError of load_snell_font leaves apply_watermark
FindFont ==
    /\ wm_pc = "font"
    /\ font' = find_max_font_size(WATERMARK_TEXT, image.width)
    /\ wm_pc' = (IF font' = Raised THEN "failed" ELSE "place")
    /\ UNCHANGED <<fontVars, source, image, placed, out_file, out_before, offWatermark>>

\* lines 71-79
Place ==
    /\ wm_pc = "place"
    /\ placed' = Placement(image, font)
    /\ wm_pc' = "composite"
    /\ UNCHANGED <<fontVars, font, source, image, out_file, out_before, offWatermark>>

\* lines 81-108: the shadow and text layers are drawn and composited in memory
Composite ==
    /\ wm_pc = "composite"
    /\ wm_pc' = "save"
    /\ UNCHANGED <<fontVars, font, source, image, placed, out_file, out_before, offWatermark>>

\* lines 87-108 raise (no memory for a layer)
CompositeFails ==
    /\ wm_pc = "composite"
    /\ wm_pc' = "failed"
    /\ UNCHANGED <<fontVars, font, source, image, placed, out_file, out_before, offWatermark>>

\* line 109: save cannot open output_path for writing (no such directory, no permission)
SaveOpenFails ==
    /\ wm_pc = "save"
    /\ wm_pc' = "failed"
    /\ UNCHANGED <<fontVars, font, source, image, placed, out_file, out_before, offWatermark>>

\* line 109: save opens output_path itself for writing, which creates or truncates it
SaveOpen ==
    /\ wm_pc = "save"
    /\ out_file' = "empty"
    /\ wm_pc' = "encode"
    /\ UNCHANGED <<fontVars, font, source, image, placed, out_before, offWatermark>>

\* line 109: the encoder writes the JPEG into the opened file
SaveWrite ==
    /\ wm_pc = "encode"
    /\ out_file' = "jpeg"
    /\ wm_pc' = "done"
    /\ UNCHANGED <<fontVars, font, source, image, placed, out_before, offWatermark>>

\* line 109: the write fails part-way (disk full, I/O error).  The file keeps what
\* was written; the library may remove a file it created itself.
SaveWriteFails ==
    /\ wm_pc = "encode"
    /\ \/ out_file' \in {"empty", "partial"}
       \/ out_before = "absent" /\ out_file' = "absent"
    /\ wm_pc' = "failed"
    /\ UNCHANGED <<fontVars, font, source, image, placed, out_before, offWatermark>>

NextWatermark ==
    \/ OpenFails
    \/ Open
    \/ FindFont
    \/ Place
    \/ Composite
    \/ CompositeFails
    \/ SaveOpenFails
    \/ SaveOpen
    \/ SaveWrite
    \/ SaveWriteFails

SpecWatermark == InitWatermark /\ [][NextWatermark]_vars

----------------------------------------------------------------------------
(* SpecStartup: watermark.py imported by several worker processes that share *)
(* the temp directory (lines 17-28), each then resolving a font (lines 37-51) *)

\* What WATERMARK_FONT_B64 can hold: nothing, the base64 of a collection with
\* face FONT_INDEX, of a single-face font, of bytes that are no font, or text
\* that base64.b64decode rejects.
Blobs == {"", "ttc", "ttf", "garbage", "invalid"}

\* Sizes load_snell_font is called with: find_max_font_size's first and last
\* candidates and its fallback.
LoadSizes == {2, 10, 200}

Complete(content) == content \in {"ttc", "ttf", "garbage"}

InitStartup ==
    /\ DECODED_FONT_PATH = "none"
    /\ \E b \in Blobs : font_b64 = b
    /\ \E fb \in {"absent", "ttf", "garbage"} :
          disk = [snell |-> "absent", fallback |-> fb]
    /\ proc_pc = [p \in Procs |-> "import"]
    /\ proc_path = [p \in Procs |-> "none"]
    /\ proc_font = [p \in Procs |-> NoFont]
    /\ IdleSearch
    /\ IdleScan
    /\ IdleWatermark
    /\ IdleUpload

\* lines 18-20: no blob configured, _DECODED_FONT_PATH stays None
NoBlob(p) ==
    /\ proc_pc[p] = "import"
    /\ font_b64 = ""
    /\ proc_pc' = [proc_pc EXCEPT ![p] = "imported"]
    /\ UNCHANGED <<disk, font_b64, proc_path, proc_font, offStartup>>

\* lines 20-23: the path is fixed before the file is looked at
SetPath(p) ==
    /\ proc_pc[p] = "import"
    /\ font_b64 # ""
    /\ proc_path' = [proc_path EXCEPT ![p] = "snell"]
    /\ proc_pc' = [proc_pc EXCEPT ![p] = "check"]
    /\ UNCHANGED <<disk, font_b64, proc_font, offStartup>>

\* line 24: the file exists, so it is taken as it is
FoundCached(p) ==
    /\ proc_pc[p] = "check"
    /\ exists("snell")
    /\ proc_pc' = [proc_pc EXCEPT ![p] = "imported"]
    /\ UNCHANGED <<disk, font_b64, proc_path, proc_font, offStartup>>

\* line 24: the file does not exist
FoundMissing(p) ==
    /\ proc_pc[p] = "check"
    /\ ~exists("snell")
    /\ proc_pc' = [proc_pc EXCEPT ![p] = "open"]
    /\ UNCHANGED <<disk, font_b64, proc_path, proc_font, offStartup>>

\* line 25: open(path, "wb") creates the file, or truncates the one another
\* process has created since the check
OpenCache(p) ==
    /\ proc_pc[p] = "open"
    /\ disk' = [disk EXCEPT !.snell = "empty"]
    /\ proc_pc' = [proc_pc EXCEPT ![p] = "decode"]
    /\ UNCHANGED <<font_b64, proc_path, proc_font, offStartup>>

\* line 26: base64.b64decode raises; lines 27-28 reset the path, the file stays
DecodeFails(p) ==
    /\ proc_pc[p] = "decode"
    /\ font_b64 = "invalid"
    /\ proc_path' = [proc_path EXCEPT ![p] = "none"]
    /\ proc_pc' = [proc_pc EXCEPT ![p] = "imported"]
    /\ UNCHANGED <<disk, font_b64, proc_font, offStartup>>

\* line 26: the decoded bytes start to reach the file
WriteSome(p) ==
    /\ proc_pc[p] = "decode"
    /\ font_b64 # "invalid"
    /\ disk' = [disk EXCEPT !.snell = "partial"]
    /\ proc_pc' = [proc_pc EXCEPT ![p] = "write"]
    /\ UNCHANGED <<font_b64, proc_path, proc_font, offStartup>>

\* line 26 and the end of the with block: the rest is written and the file closed
WriteRest(p) ==
    /\ proc_pc[p] = "write"
    /\ disk' = [disk EXCEPT !.snell = font_b64]
    /\ proc_pc' = [proc_pc EXCEPT ![p] = "imported"]
    /\ UNCHANGED <<font_b64, proc_path, proc_font, offStartup>>

\* line 26: the write raises (disk full); lines 27-28 reset the path, the
\* file keeps the part that was written
WriteFails(p) ==
    /\ proc_pc[p] = "write"
    /\ proc_path' = [proc_path EXCEPT ![p] = "none"]
    /\ proc_pc' = [proc_pc EXCEPT ![p] = "imported"]
    /\ UNCHANGED <<disk, font_b64, proc_font, offStartup>>

\* lines 37-51 in an imported process
Resolve(p, sz) ==
    /\ proc_pc[p] = "imported"
    /\ proc_font' = [proc_font EXCEPT ![p] = snell_font(proc_path[p], sz)]
    /\ proc_pc' = [proc_pc EXCEPT ![p] = "resolved"]
    /\ UNCHANGED <<disk, font_b64, proc_path, offStartup>>

NextStartup ==
    \E p \in Procs :
        \/ NoBlob(p)
        \/ SetPath(p)
        \/ FoundCached(p)
        \/ FoundMissing(p)
        \/ OpenCache(p)
        \/ DecodeFails(p)
        \/ WriteSome(p)
        \/ WriteRest(p)
        \/ WriteFails(p)
        \/ \E sz \in LoadSizes : Resolve(p, sz)

SpecStartup == InitStartup /\ [][NextStartup]_vars

----------------------------------------------------------------------------
(* app.py: POST /upload (lines 96-162) and POST /admin (lines 209-222) *)

\* line 99
categories == {"animals", "people", "landscape"}

\* line 16
ALLOWED_EXTENSIONS == {"png", "jpg", "jpeg", "gif"}

\* lines 32-33; a form file is modelled by whether it has a name and by the
\* lower-cased text after its last dot ("" when the name has no dot)
allowed_file(f) == f.ext # "" /\ f.ext \in ALLOWED_EXTENSIONS

\* lines 102-113: the status of the first check that rejects the form, 0 if none
Rejects(f) ==
    IF ~f.has_file THEN 400
    ELSE IF f.category = "" \/ f.category \notin categories THEN 400
    ELSE IF ~f.named THEN 400
    ELSE IF ~allowed_file(f) THEN 400
    ELSE 0

\* lines 147-153
Document(f) == [category |-> f.category, is_featured |-> FALSE]

\* what a client can send as the category field ("" when the field is absent)
FormCategories == categories \cup {"", "cars"}

Forms ==
    [has_file : BOOLEAN, category : FormCategories,
     ext : {"", "jpg", "txt"}, named : BOOLEAN]

InitUpload ==
    /\ DECODED_FONT_PATH = "none"
    /\ disk = [snell |-> "absent", fallback |-> "absent"]
    /\ IdleSearch
    /\ IdleScan
    /\ IdleWatermark
    /\ IdleStartup
    /\ IdleUpload

\* lines 101-113: a request that fails validation is answered 400
PostRejected(f) ==
    /\ up_pc \in {"idle", "responded"}
    /\ Rejects(f) # 0
    /\ form' = f
    /\ original_file' = "absent"
    /\ watermarked_file' = "absent"
    /\ response' = Rejects(f)
    /\ up_pc' = "responded"
    /\ UNCHANGED <<photos, offUpload>>

\* lines 101-128: a valid request; fresh uuid paths; the original is saved
PostSaved(f) ==
    /\ up_pc \in {"idle", "responded"}
    /\ Len(photos) < MaxPhotos
    /\ Rejects(f) = 0
    /\ form' = f
    /\ original_file' = "present"
    /\ watermarked_file' = "absent"
    /\ response' = 0
    /\ up_pc' = "saved"
    /\ UNCHANGED <<photos, offUpload>>

\* line 131: apply_watermark returns, the watermarked file is written
Watermarked ==
    /\ up_pc = "saved"
    /\ watermarked_file' = "present"
    /\ up_pc' = "watermarked"
    /\ UNCHANGED <<form, original_file, response, photos, offUpload>>

\* line 131: apply_watermark raises; nothing catches it, the framework answers
\* 500.  The watermarked path holds whatever the failed call left there.
WatermarkRaises ==
    /\ up_pc = "saved"
    /\ watermarked_file' \in {"absent", "partial"}
    /\ response' = 500
    /\ up_pc' = "responded"
    /\ UNCHANGED <<form, original_file, photos, offUpload>>

\* lines 134-136: the cloud upload succeeds
Uploaded ==
    /\ up_pc = "watermarked"
    /\ up_pc' = "uploaded"
    /\ UNCHANGED <<form, original_file, watermarked_file, response, photos, offUpload>>

\* lines 137-144: the cloud upload raises.  One try covers both removals, so an
\* OSError of the first skips the second; then 500 is returned.
UploadRaises ==
    /\ up_pc = "watermarked"
    /\ \/ original_file' = "absent" /\ watermarked_file' = "absent"
       \/ original_file' = "absent" /\ watermarked_file' = watermarked_file
       \/ original_file' = original_file /\ watermarked_file' = watermarked_file
    /\ response' = 500
    /\ up_pc' = "responded"
    /\ UNCHANGED <<form, photos, offUpload>>

\* lines 147-153: the document is added
Stored ==
    /\ up_pc = "uploaded"
    /\ photos' = Append(photos, Document(form))
    /\ up_pc' = "stored"
    /\ UNCHANGED <<form, original_file, watermarked_file, response, offUpload>>

\* lines 147-153: the Firestore write raises; nothing catches it, the framework
\* answers 500 and lines 155-160 are not reached
StoreRaises ==
    /\ up_pc = "uploaded"
    /\ response' = 500
    /\ up_pc' = "responded"
    /\ UNCHANGED <<form, original_file, watermarked_file, photos, offUpload>>

\* lines 155-162: each removal in its own try (an OSError leaves the file);
\* then the redirect
CleanedUp ==
    /\ up_pc = "stored"
    /\ original_file' \in {"absent", original_file}
    /\ watermarked_file' \in {"absent", watermarked_file}
    /\ response' = 302
    /\ up_pc' = "responded"
    /\ UNCHANGED <<form, photos, offUpload>>

\* lines 211-222: POST /admin.  photo_id 0 stands for a missing field; an id
\* that names no document makes ref.update raise and changes nothing.
AdminPost(photo_id, is_featured, category) ==
    /\ photos' =
          IF photo_id \in 1 .. Len(photos)
          THEN [photos EXCEPT ![photo_id] =
                   [category |-> IF category # "" THEN category ELSE @.category,
                    is_featured |-> is_featured]]
          ELSE photos
    /\ UNCHANGED <<up_pc, form, original_file, watermarked_file, response, offUpload>>

NextUpload ==
    \/ \E f \in Forms : PostRejected(f)
    \/ \E f \in Forms : PostSaved(f)
    \/ Watermarked
    \/ WatermarkRaises
    \/ Uploaded
    \/ UploadRaises
    \/ Stored
    \/ StoreRaises
    \/ CleanedUp
    \/ \E id \in 0 .. MaxPhotos + 1, ft \in BOOLEAN, c \in FormCategories :
          AdminPost(id, ft, c)

SpecUpload == InitUpload /\ [][NextUpload]_vars

----------------------------------------------------------------------------
(* The claims *)

TextWidth(t, f) == textbbox(t, f)[3] - textbbox(t, f)[1]

\* C1, as stated: whenever find_max_font_size returns a font found by the scan,
\* the measured width of the text in that font is at most
\* image_width - 2 * PADDING.
C1_FitTwoPaddings ==
    scan_pc = "returned" => TextWidth(text, font) <= image_width - 2 * PADDING

\* C1, amended: whenever find_max_font_size returns a font found by the scan,
\* the measured width of the text in that font is at most image_width - PADDING
\* (20 pixels, the padding once).
C1_FitOnePadding ==
    scan_pc = "returned" => TextWidth(text, font) <= image_width - PADDING

\* C1 witness: on an image wider than both paddings the scan went below the
\* ceiling and returned a size whose text is exactly image_width - 20 wide.
C1_TightFit ==
    /\ scan_pc = "returned"
    /\ image_width > 2 * PADDING
    /\ font.size < 200
    /\ TextWidth(text, font) = image_width - PADDING

\* C2: the search returns the largest size in 1..200 whose text fits, and the
\* size 10 only when no size in 1..200 fits.
C2_LargestOfOneTo200 ==
    scan_pc \in {"returned", "fell_back"} =>
        LET fit == {sz \in 1 .. 200 :
                       Fits(text, load_snell_font(sz), image_width)}
        IN  font.size = IF fit = {} THEN 10
                        ELSE CHOOSE sz \in fit : \A o \in fit : o <= sz

\* C3, as stated: for the same text and widths w1 <= w2 the size chosen for w2
\* is at least the size chosen for w1, fallbacks to size 10 included.
C3_MonotoneEverywhere ==
    (prev_font.kind = "font" /\ font.kind = "font" /\ prev_width <= image_width)
        => prev_font.size <= font.size

\* C3, amended: for the same text and widths w1 <= w2, when the search for w1
\* returns a size found by the scan (its text fits w1; it did not fall back to
\* size 10), the size chosen for w2 is at least the size chosen for w1.
C3_MonotoneWhenScanned ==
    (/\ prev_font.kind = "font"
     /\ font.kind = "font"
     /\ prev_width <= image_width
     /\ Fits(text, prev_font, prev_width))
        => prev_font.size <= font.size

\* C3 witness: two widths, both answered by the scan below the ceiling, the
\* wider one with the strictly larger size.
C3_LargerForWider ==
    /\ prev_font.kind = "font"
    /\ font.kind = "font"
    /\ prev_width < image_width
    /\ Fits(text, prev_font, prev_width)
    /\ prev_font.size < font.size
    /\ font.size < 200

\* C4: load_snell_font never raises: every call of a process that has been
\* imported ends with a font, the built-in default at the latest.
C4_NeverRaises ==
    \A p \in Procs : proc_pc[p] = "resolved" => proc_font[p].kind = "font"

\* C5: the text drawn at (x, y) has the right edge of its box at
\* image_width - 20 and the bottom edge at image_height - 20.
C5_InsetByPadding ==
    placed.kind = "placed" =>
        /\ DrawnBox(placed)[3] = image.width - PADDING
        /\ DrawnBox(placed)[4] = image.height - PADDING

\* C6: the destination is untouched until decoding, font resolution and
\* compositing have succeeded, and after the call it is either the complete
\* JPEG or exactly what it was before the call.
C6_NoPartialOutput ==
    /\ wm_pc \in {"open", "font", "place", "composite", "save"} => out_file = out_before
    /\ wm_pc = "failed" => out_file = out_before
    /\ wm_pc = "done" => out_file = "jpeg"

\* C7: no process finds the cache file existing and takes it as ready while it
\* is empty or partly written, and all processes that resolve a font resolve
\* it from the same tier.
C7_CacheReadyWhenFound ==
    /\ [][\A p \in Procs :
             (proc_pc[p] = "check" /\ proc_pc'[p] = "imported")
                 => Complete(disk.snell)]_vars
    /\ [](\A p, q \in Procs :
             (proc_font[p].kind = "font" /\ proc_font[q].kind = "font")
                 => proc_font[p].tier = proc_font[q].tier)

\* No candidate of the loop fits: each of 2..200 loads and is too wide.
NoCandidateFits ==
    \A sz \in 2 .. 200 :
        /\ load_snell_font(sz) # Raised
        /\ ~Fits(text, load_snell_font(sz), image_width)

\* C8: find_max_font_size terminates: inside the loop the size is between 1 and
\* 200 and one measurement has been made for each size passed (at most 199 in
\* all), a step is always possible until the function is left, every
\* iteration that stays in the loop lowers the size, and when no candidate
\* fits the function returns the font of size 10 and does not raise.
C8_Terminates ==
    /\ [](/\ measured <= 199
          /\ scan_pc = "loop" =>
                /\ size \in 1 .. 200
                /\ measured = 200 - size
                /\ ENABLED NextScan
          /\ (ScanOver /\ NoCandidateFits) =>
                /\ scan_pc = "fell_back"
                /\ measured = 199
                /\ font.kind = "font"
                /\ font.size = 10)
    /\ [][(scan_pc = "loop" /\ scan_pc' = "loop") => size' < size]_vars

\* C8 witness: a 30 pixel wide image and the long watermark text; all 199
\* candidates were measured, none fitted, size 10 was returned.
C8_TinyImage ==
    /\ scan_pc = "fell_back"
    /\ text = WATERMARK_TEXT
    /\ image_width = 30
    /\ measured = 199
    /\ font.size = 10

\* C9: when a request that passed validation has been answered, neither its
\* saved original nor its watermarked file is left on disk, and a failure was
\* answered with an error status.
C9_NoLocalArtifacts ==
    (up_pc = "responded" /\ Rejects(form) = 0) =>
        /\ original_file = "absent"
        /\ watermarked_file = "absent"
        /\ response \in {302, 500}

\* C10: every document of the photos collection has a category of the
\* allow-list.
C10_CategoriesAllowed ==
    \A i \in 1 .. Len(photos) : photos[i].category \in categories

====
